---- MODULE Spec2Model ----
(***************************************************************************)
(* Model of the Sentry hook of logrus-hooks (src/sentry/hook.go).          *)
(*                                                                         *)
(* Spec        the delivery coordinator: goroutines calling Hook.Fire and  *)
(*             Hook.Flush, the background goroutines Fire launches, the    *)
(*             notifier's error channels, the timers of time.After,        *)
(*             hook.mu and hook.wg.                                        *)
(* FairSpec    Spec with the fairness the Go scheduler and runtime timers  *)
(*             give (every runnable goroutine runs, every timer fires).    *)
(* FairSyncSpec the synchronous hook under that fairness.                  *)
(* SpecConfig  Spec with the setters called while the hook is in use.      *)
(* SpecResolve findStacktrace applied to bounded chains of wrapped errors. *)
(* SpecConvert convertStackTrace applied to bounded errors.StackTrace      *)
(*             values.                                                     *)
(***************************************************************************)
EXTENDS Integers, Sequences, FiniteSets, TLC

VARIABLES
    asynchronous,  \* Hook.asynchronous
    Timeout,       \* Hook.Timeout, in milliseconds
    serverName,    \* Hook.serverName: a string header, two machine words
    ignoreFields,  \* Hook.ignoreFields: a map, with its "being written" mark
    extraFilters,  \* Hook.extraFilters: a map, with its "being written" mark
    mu,            \* Hook.mu (sync.RWMutex)
    wg,            \* Hook.wg (sync.WaitGroup): its counter
    pc,            \* where each goroutine calling Fire stands
    cur,           \* the call each such goroutine is in (0: none yet)
    result,        \* what its last Fire returned
    recvd,         \* what its select received from errCh
    timer,         \* the timer of time.After(timeout) of its call
    seen,          \* the configuration its call read
    chan,          \* errCh of each call
    task,          \* the goroutine launched by each asynchronous call
    flpc,          \* where each goroutine calling Flush stands
    snap,          \* the tasks registered, and those of them still running,
                   \* when its Flush called mu.Lock
    spc,           \* where each goroutine calling a setter stands
    nfire,         \* Fire calls made so far
    nflush,        \* Flush calls made so far
    nset,          \* setter calls made so far
    streak,        \* Flush calls returned in a row, no Fire call in between
    err,           \* the error handed to findStacktrace
    trace,         \* what findStacktrace returned for it
    st,            \* the errors.StackTrace handed to convertStackTrace
    conv,          \* what convertStackTrace returned for it
    entry,         \* the logrus.Entry handed to Fire: its Level and Data
    stConfig,      \* Hook.StacktraceConfiguration
    fresh,         \* what raven.NewStacktrace returns at this call site
    seed,          \* the Extra of the packet raven.NewPacket returns
    packet,        \* the packet Fire hands to client.Capture
    severityMap,   \* the package variable severityMap
    ctor,          \* the constructor called
    dsn,           \* whether raven.New accepts the DSN it is given
    made           \* what the constructor returned: hook and error

hookVars   == <<asynchronous, Timeout, serverName, ignoreFields, extraFilters, mu, wg>>
fireVars   == <<pc, cur, result, recvd, timer, seen, chan, task>>
flushVars  == <<flpc, snap>>
countVars  == <<nfire, nflush, nset, streak>>
traceVars  == <<err, trace, st, conv>>
buildVars  == <<entry, stConfig, fresh, seed, packet, severityMap>>
newVars    == <<ctor, dsn, made>>
vars       == <<hookVars, fireVars, flushVars, spc, countVars, traceVars,
               buildVars, newVars>>

(***************************************************************************)
(* Bounds.                                                                 *)
(***************************************************************************)
MaxFires   == 2   \* Fire calls in one behaviour
MaxFlushes == 2   \* Flush calls in one behaviour
MaxSets    == 1   \* setter calls in one behaviour
MaxFairFlushes == 1   \* Flush calls in one behaviour of FairAsyncSpec

Fires    == {"f1", "f2"}   \* goroutines that log
Flushers == {"g1"}         \* goroutines that flush
Setters  == {"s1"}         \* goroutines that configure
Calls    == 1..MaxFires
None     == "none"

DefaultTimeout == 100
Timeouts       == {0, 50, DefaultTimeout}
Names          == {"", "srv"}
Keys           == {"k"}

(***************************************************************************)
(* Values.                                                                 *)
(***************************************************************************)
NilErr        == "nil"
DeliveryErr   == "err"
\* What Fire returns: nil, the error received from errCh, or the error
\* "no response from sentry server in <d>".
Ret(e)        == [err |-> e, in |-> 0]
TimeoutErr(d) == [err |-> "no response from sentry server", in |-> d]
NoResult      == Ret(None)

\* A Go string of value v: data pointer and length are written separately.
Str(v)        == [ptr |-> v, len |-> v]
HalfStr(s)    == s.ptr # s.len
EmptyMap      == [keys |-> {}, writing |-> FALSE]
\* What a Fire call has read of the configuration (a local of the call).
NoRead        == [name |-> Str(""), torn |-> FALSE]

InFire(p)     == pc[p] \notin {"idle", "returned"}
Locked(p)     == pc[p] \in {"build", "extra", "dispatched", "added", "spawned", "select"}

(***************************************************************************)
(* Stack traces.  A *raven.Stacktrace is nil, a trace an error hands out   *)
(* through GetStacktrace (told apart by its identity), or one built by     *)
(* convertStackTrace; a call that panics yields no value.                  *)
(***************************************************************************)
MaxFrames == 3   \* frames of an errors.StackTrace given to convertStackTrace
MaxChain  == 2   \* errors in a chain given to findStacktrace

NilTrace      == [kind |-> "nil", id |-> "", frames |-> <<>>]
Direct(i)     == [kind |-> "direct", id |-> i, frames |-> <<>>]
Converted(fs) == [kind |-> "converted", id |-> "", frames |-> fs]
Panic         == [kind |-> "panic", id |-> "", frames |-> <<>>]
Unset         == [kind |-> "unset", id |-> "", frames |-> <<>>]
DirectTraces  == {NilTrace, Direct("T1"), Direct("T2")}

\* An errors.StackTrace is a slice of program counters, possibly nil.
NilStack      == [nil |-> TRUE, frames |-> <<>>]
Stack(fs)     == [nil |-> FALSE, frames |-> fs]

\* Program counters: 1 and 2 lie in functions of the program, 3 in
\* runtime.goexit, 0 in no function.
PCs           == {0, 1, 2, 3}
NoFunc        == "<nil>"
NilFrame      == [pc |-> -1, fn |-> NoFunc]

RECURSIVE SeqsUpTo(_, _)
SeqsUpTo(S, n) ==
    IF n = 0 THEN {<<>>}
    ELSE LET shorter == SeqsUpTo(S, n - 1)
         IN  shorter \cup {Append(s, x) : s \in {q \in shorter : Len(q) = n - 1}, x \in S}

Stacks        == {NilStack} \cup {Stack(fs) : fs \in SeqsUpTo(PCs, MaxFrames)}
\* The stack traces the errors of a chain carry.
ChainStacks   == {NilStack, Stack(<<>>), Stack(<<1>>), Stack(<<1, 2>>), Stack(<<0, 1>>)}

\* runtime.FuncForPC: the function containing pc, or nil.
FuncForPC(p) ==
    CASE p = 1 -> "main.f"
      [] p = 2 -> "main.g"
      [] p = 3 -> "runtime.goexit"
      [] OTHER -> NoFunc

\* raven.NewStacktraceFrame: nil for the placeholder frame runtime.goexit.
NewStacktraceFrame(p) ==
    IF FuncForPC(p) = "runtime.goexit" THEN NilFrame ELSE [pc |-> p, fn |-> FuncForPC(p)]

Reverse(s) == [i \in 1..Len(s) |-> s[Len(s) + 1 - i]]

\* Lines 335-343: the loop over the raw frames.  fn.FileLine(pc) is called
\* on what FuncForPC returned without a test for nil: on a nil *runtime.Func
\* it dereferences nil and panics.
RECURSIVE convertLoop(_, _, _)
convertLoop(stFrames, i, frames) ==
    IF i > Len(stFrames) THEN Converted(frames)
    ELSE IF FuncForPC(stFrames[i]) = NoFunc THEN Panic
    ELSE LET frame == NewStacktraceFrame(stFrames[i])
         IN  convertLoop(stFrames, i + 1,
                         IF frame # NilFrame THEN Append(frames, frame) ELSE frames)

\* Lines 331-350: the loop, then the frames reversed (oldest first).
convertStackTrace(s) ==
    LET r == convertLoop(s.frames, 1, <<>>)
    IN  IF r = Panic THEN Panic ELSE Converted(Reverse(r.frames))

(***************************************************************************)
(* Errors.  An error is the sequence of the links of its chain, outermost  *)
(* first: link i+1 is what link i's Cause() returns.  A link says which of *)
(* Stacktracer, pkgErrorStackTracer and causer its type implements, and    *)
(* what the methods return.  Every link but the last is a causer; the last *)
(* is no causer, or one whose Cause() returns nil.                         *)
(***************************************************************************)
Links ==
    [st : {FALSE}, stTrace : {NilTrace}, pk : {FALSE}, pkTrace : {NilStack}, causer : BOOLEAN]
    \cup [st : {TRUE}, stTrace : DirectTraces, pk : {FALSE}, pkTrace : {NilStack}, causer : BOOLEAN]
    \cup [st : {FALSE}, stTrace : {NilTrace}, pk : {TRUE}, pkTrace : ChainStacks, causer : BOOLEAN]
    \cup [st : {TRUE}, stTrace : DirectTraces, pk : {TRUE}, pkTrace : ChainStacks, causer : BOOLEAN]

Chains ==
    {e \in SeqsUpTo(Links, MaxChain) : \A i \in 1..(Len(e) - 1) : e[i].causer}

\* Lines 308-322: the walk along the chain from link i on.
RECURSIVE walk(_, _, _, _)
walk(e, i, stacktrace, stackErr) ==
    IF i > Len(e) THEN <<stacktrace, stackErr>>
    ELSE LET s1 == IF e[i].st THEN e[i].stTrace
                   ELSE IF e[i].pk THEN NilTrace ELSE stacktrace
             s2 == IF e[i].st THEN NilStack
                   ELSE IF e[i].pk THEN e[i].pkTrace ELSE stackErr
         IN  IF e[i].causer THEN walk(e, i + 1, s1, s2) ELSE <<s1, s2>>

\* Mutant: the walk stops at the first link that exposes a stack trace.
RECURSIVE walkFirst(_, _)
walkFirst(e, i) ==
    IF i > Len(e) THEN <<NilTrace, NilStack>>
    ELSE IF e[i].st THEN <<e[i].stTrace, NilStack>>
    ELSE IF e[i].pk THEN <<NilTrace, e[i].pkTrace>>
    ELSE IF e[i].causer THEN walkFirst(e, i + 1) ELSE <<NilTrace, NilStack>>

findStacktrace_FirstWins(e) ==
    LET r == walkFirst(e, 1)
    IN  IF ~r[2].nil THEN convertStackTrace(r[2]) ELSE r[1]

\* Lines 305-327
findStacktrace(e) ==
    LET r == walk(e, 1, NilTrace, NilStack)
    IN  IF ~r[2].nil THEN convertStackTrace(r[2]) ELSE r[1]


(***************************************************************************)
(* Building the packet.  logrus levels are ordered from the most severe,   *)
(* Panic, to the least; TraceLevel stands for a level severityMap has no   *)
(* entry for.                                                              *)
(***************************************************************************)
PanicLevel == 0
FatalLevel == 1
ErrorLevel == 2
WarnLevel  == 3
InfoLevel  == 4
DebugLevel == 5
TraceLevel == 6
AllLevels  == PanicLevel..TraceLevel

\* Lines 15-24
severityTable_PanicOwn ==
    (DebugLevel :> "debug") @@ (InfoLevel :> "info") @@ (WarnLevel :> "warning")
    @@ (ErrorLevel :> "error") @@ (FatalLevel :> "fatal") @@ (PanicLevel :> "panic")

severityTable ==
    (DebugLevel :> "debug") @@ (InfoLevel :> "info") @@ (WarnLevel :> "warning")
    @@ (ErrorLevel :> "error") @@ (FatalLevel :> "fatal") @@ (PanicLevel :> "fatal")

\* Reading a Go map: the zero value, the empty Severity, for a missing key.
Severity(m, l) == IF l \in DOMAIN m THEN m[l] ELSE ""

\* A value of entry.Data: its dynamic type and what tells it apart.  The
\* String() text of a fmt.Stringer is <v>, an error is named by <v>, and a
\* "marshaler_error" is an error that is a json.Marshaler too.
Val(t, v)     == [t |-> t, v |-> v]
Missing       == Val("absent", "")

\* A Go string built by concatenation, as the sequence of its parts; the
\* empty string is the empty sequence.
NoText        == <<>>
Cat3(a, b, c) == <<a, b, c>>

\* Errors an entry may carry under the key "error": the chain of errors
\* Cause() walks, with the dynamic type and the Error() text of each.
PlainLink     == [st |-> FALSE, stTrace |-> NilTrace, pk |-> FALSE,
                  pkTrace |-> NilStack, causer |-> FALSE]
EntryErrors ==
    ("plain"   :> [chain |-> <<PlainLink>>,
                   types |-> <<"*errors.errorString">>,
                   msgs  |-> <<"boom">>])
 @@ ("wrapped" :> [chain |-> <<[PlainLink EXCEPT !.pk = TRUE, !.causer = TRUE,
                                     !.pkTrace = Stack(<<1, 2>>)], PlainLink>>,
                   types |-> <<"*errors.withStack", "*errors.errorString">>,
                   msgs  |-> <<"ctx: boom", "boom">>])
 @@ ("traced"  :> [chain |-> <<[PlainLink EXCEPT !.st = TRUE, !.causer = TRUE,
                                     !.stTrace = Direct("T1")]>>,
                   types |-> <<"*app.Traced">>,
                   msgs  |-> <<"traced">>])
 @@ ("untraced" :> [chain |-> <<[PlainLink EXCEPT !.st = TRUE]>>,
                   types |-> <<"*app.Untraced">>,
                   msgs  |-> <<"untraced">>])
 @@ ("badpc"   :> [chain |-> <<[PlainLink EXCEPT !.pk = TRUE,
                                     !.pkTrace = Stack(<<0, 1>>)]>>,
                   types |-> <<"*errors.fundamental">>,
                   msgs  |-> <<"bad">>])
ErrorNames    == DOMAIN EntryErrors

\* errors.Cause: the first error of the chain that is no causer, nil (0)
\* when the last causer's Cause() returns nil.
RECURSIVE Cause(_, _)
Cause(e, i) ==
    IF ~e[i].causer THEN i
    ELSE IF i = Len(e) THEN 0 ELSE Cause(e, i + 1)

\* raven.NewStacktrace walks the stack of the calling goroutine: a trace
\* of its frames, or nil when Skip leaves none.
FreshTrace    == [kind |-> "fresh", id |-> "", frames |-> <<[pc |-> 1, fn |-> FuncForPC(1)]>>]

\* (*raven.Stacktrace).Culprit: the function of the innermost frame marked
\* in-app, the empty string when there is none; it reads s.Frames, so a nil
\* receiver panics.
InApp(f, prefixes) == "main" \in prefixes /\ f.fn \in {"main.f", "main.g"}
RECURSIVE lastInApp(_, _)
lastInApp(frames, prefixes) ==
    IF frames = <<>> THEN ""
    ELSE LET f == frames[Len(frames)]
         IN  IF InApp(f, prefixes) THEN f.fn
             ELSE lastInApp(SubSeq(frames, 1, Len(frames) - 1), prefixes)
Culprit(t, prefixes) ==
    IF t.kind = "nil" THEN "<panic>" ELSE lastInApp(t.frames, prefixes)

(***************************************************************************)
(* The view of entry.Data (dataField): the eight well-known fields, each   *)
(* read by name and type, and the names left out of the extra data.        *)
(***************************************************************************)
WellKnown ==
    {"logger", "server_name", "event_id", "tags", "fingerprint",
     "http_request", "user", "error"}
FieldTypes ==
    [k \in WellKnown |->
        CASE k \in {"logger", "server_name", "event_id"} -> {"string"}
          [] k = "tags"         -> {"tags"}
          [] k = "fingerprint"  -> {"strings"}
          [] k = "http_request" -> {"request"}
          [] k = "user"         -> {"user"}
          [] k = "error"        -> {"error", "marshaler_error"}]
newDataField(data) == data
isOmit(df, k)      == k \in WellKnown
Absent             == [ok |-> FALSE, v |-> ""]
get(df, k) ==
    IF k \in DOMAIN df /\ df[k].t \in FieldTypes[k]
    THEN [ok |-> TRUE, v |-> df[k].v] ELSE Absent
getLogger(df)      == get(df, "logger")
getServerName(df)  == get(df, "server_name")
getEventID(df)     == get(df, "event_id")
getTags(df)        == get(df, "tags")
getFingerprint(df) == get(df, "fingerprint")
getHTTPRequest(df) == get(df, "http_request")
getUser(df)        == get(df, "user")
getError(df)       == get(df, "error")

\* Lines 404-415: the type switch takes the first case that matches.
formatData(x) ==
    CASE x.t \in {"marshaler", "marshaler_error"} -> x
      [] x.t = "error"    -> Val("string", EntryErrors[x.v].msgs[1])
      [] x.t = "stringer" -> Val("string", x.v)
      [] OTHER            -> x

\* The function registered for a field by AddExtraFilter, applied to x.
Filter(k, x) == Val("filtered", x.v)

\* Mutant: fields of the ignore-set are formatted like the others.
formatExtraData_KeepIgnored(df, ignore, filters) ==
    [k \in {f \in DOMAIN df : ~isOmit(df, f)} |->
        IF k \in filters THEN Filter(k, df[k]) ELSE formatData(df[k])]

\* Lines 382-401
formatExtraData(df, ignore, filters) ==
    [k \in {f \in DOMAIN df : ~isOmit(df, f) /\ f \notin ignore} |->
        IF k \in filters THEN Filter(k, df[k]) ELSE formatData(df[k])]

\* Packet.Extra: a map, possibly nil.
NilExtra      == [nil |-> TRUE, m |-> <<>>]
Extra(m)      == [nil |-> FALSE, m |-> m]

\* Mutant: a key the packet has already keeps its value.
mergeExtra_KeepExisting(extra, dataExtra) ==
    IF extra.nil THEN Extra(dataExtra)
    ELSE Extra([k \in DOMAIN extra.m \cup DOMAIN dataExtra |->
                  IF k \in DOMAIN extra.m THEN extra.m[k] ELSE dataExtra[k]])

\* Lines 259-265
mergeExtra(extra, dataExtra) ==
    IF extra.nil THEN Extra(dataExtra)
    ELSE Extra([k \in DOMAIN extra.m \cup DOMAIN dataExtra |->
                  IF k \in DOMAIN dataExtra THEN dataExtra[k] ELSE extra.m[k]])

(***************************************************************************)
(* Fire, lines 187-265: the packet handed to client.Capture.               *)
(***************************************************************************)
Iface(k, t, v, tr) == [kind |-> k, type |-> t, value |-> v, trace |-> tr]
HTTPIface(v)       == Iface("http", "", v, NilTrace)
UserIface(v)       == Iface("user", "", v, NilTrace)
TraceIface(tr)     == Iface("stacktrace", "", "", tr)
\* raven.NewException(cause, stacktrace)
NewException(t, v, tr) == Iface("exception", t, v, tr)

\* What lines 221-255 do to the packet: the interfaces appended, the
\* culprit set, or the panic that ends the call.
Block(p, is, c) == [panicked |-> p, ifaces |-> is, culprit |-> c]

\* Mutant: the level test the other way round.
StacktraceWanted_AtLeast(c, l) == c.Enable /\ l >= c.Level

\* Line 222
StacktraceWanted(c, l) == c.Enable /\ l <= c.Level

\* Lines 223-243: the entry carries the error named n.
withError(c, n, freshT) ==
    LET e       == EntryErrors[n]
        found   == findStacktrace(e.chain)
        current == IF found.kind = "nil" THEN freshT ELSE found
        root    == Cause(e.chain, 1)
        cause   == IF root = 0 THEN 1 ELSE root
        exc     == NewException(IF c.SendExceptionType THEN e.types[cause] ELSE "",
                                e.msgs[cause], current)
    IN  IF found.kind = "panic" THEN Block(TRUE, <<>>, NoText)
        ELSE IF c.SwitchExceptionTypeAndMessage
        THEN IF current.kind = "nil"
             THEN Block(TRUE, <<TraceIface(current)>>, NoText)
             ELSE Block(FALSE, <<TraceIface(current)>>,
                        Cat3(exc.type, ": ", Culprit(current, c.InAppPrefixes)))
        ELSE Block(FALSE, <<exc>>, <<e.msgs[1]>>)

\* Lines 221-255
stacktraceBlock(c, level, df, freshT) ==
    LET e == getError(df)
    IN  IF StacktraceWanted(c, level)
        THEN IF e.ok THEN withError(c, e.v, freshT)
             ELSE Block(FALSE,
                        IF freshT.kind # "nil" THEN <<TraceIface(freshT)>> ELSE <<>>,
                        NoText)
        ELSE Block(FALSE, <<>>, IF e.ok THEN <<EntryErrors[e.v].msgs[1]>> ELSE NoText)

NoPacket ==
    [built |-> FALSE, panicked |-> FALSE, Level |-> "", Platform |-> "",
     ServerName |-> "", Logger |-> "", EventID |-> "", Tags |-> "",
     Fingerprint |-> "", Culprit |-> NoText, Interfaces |-> <<>>,
     Extra |-> NilExtra]

\* Lines 187-265.  A panic ends the call before client.Capture: no packet.
BuildPacket(e, c, name, ignore, filters, freshT, seedExtra, sev) ==
    LET df    == newDataField(e.Data)
        opt(g, dflt) == IF g.ok THEN g.v ELSE dflt
        block == stacktraceBlock(c, e.Level, df, freshT)
    IN  IF block.panicked THEN [NoPacket EXCEPT !.panicked = TRUE]
        ELSE [built       |-> TRUE,
              panicked    |-> FALSE,
              Level       |-> Severity(sev, e.Level),
              Platform    |-> "go",
              ServerName  |-> opt(getServerName(df), name),
              Logger      |-> opt(getLogger(df), ""),
              EventID     |-> opt(getEventID(df), ""),
              Tags        |-> opt(getTags(df), ""),
              Fingerprint |-> opt(getFingerprint(df), ""),
              Culprit     |-> block.culprit,
              Interfaces  |->
                  (IF getHTTPRequest(df).ok
                   THEN <<HTTPIface(getHTTPRequest(df).v)>> ELSE <<>>)
                  \o (IF getUser(df).ok THEN <<UserIface(getUser(df).v)>> ELSE <<>>)
                  \o block.ifaces,
              Extra       |-> mergeExtra(seedExtra, formatExtraData(df, ignore, filters))]

(***************************************************************************)
(* The constructors, lines 109-178.  raven.New and raven.NewWithTags fail  *)
(* on a DSN they cannot parse; a constructor returns a hook, possibly nil, *)
(* and an error, possibly nil.                                             *)
(***************************************************************************)
DSNErr        == "raven: dsn"
DefaultStConfig ==
    [Enable |-> FALSE, Level |-> ErrorLevel, Skip |-> 5, Context |-> 0,
     InAppPrefixes |-> {}, SendExceptionType |-> TRUE,
     SwitchExceptionTypeAndMessage |-> FALSE]
NilHook       == [nil |-> TRUE, asynchronous |-> FALSE, Timeout |-> 0,
                  StacktraceConfiguration |-> DefaultStConfig]
Returned(h, e) == [hook |-> h, err |-> e]
Pending       == Returned(NilHook, "pending")

\* Lines 133-149
NewWithClientHookCall ==
    Returned([nil |-> FALSE, asynchronous |-> FALSE, Timeout |-> DefaultTimeout,
              StacktraceConfiguration |-> DefaultStConfig], NilErr)
\* Lines 112-118
NewHook(ok) == IF ~ok THEN Returned(NilHook, DSNErr) ELSE NewWithClientHookCall
\* Lines 123-129
NewWithTagsHook(ok) == IF ~ok THEN Returned(NilHook, DSNErr) ELSE NewWithClientHookCall

\* Mutant: the flag is left as it was.
setAsync_Forgets(hook) == hook

\* Lines 172-178
setAsync(hook) == IF hook.nil THEN NilHook ELSE [hook EXCEPT !.asynchronous = TRUE]

\* Lines 153-156
NewAsyncHook(ok) ==
    LET r == NewHook(ok) IN Returned(setAsync(r.hook), r.err)
\* Lines 160-163
NewAsyncWithTagsHook(ok) ==
    LET r == NewWithTagsHook(ok) IN Returned(setAsync(r.hook), r.err)
\* Lines 167-170
NewAsyncWithClientHook ==
    LET r == NewWithClientHookCall IN Returned(setAsync(r.hook), r.err)

SyncCtors     == {"NewHook", "NewWithTagsHook", "NewWithClientHook"}
AsyncCtors    == {"NewAsyncHook", "NewAsyncWithTagsHook", "NewAsyncWithClientHook"}
Ctors         == SyncCtors \cup AsyncCtors
Call(c, ok) ==
    CASE c = "NewHook"                -> NewHook(ok)
      [] c = "NewWithTagsHook"        -> NewWithTagsHook(ok)
      [] c = "NewWithClientHook"      -> NewWithClientHookCall
      [] c = "NewAsyncHook"           -> NewAsyncHook(ok)
      [] c = "NewAsyncWithTagsHook"   -> NewAsyncWithTagsHook(ok)
      [] c = "NewAsyncWithClientHook" -> NewAsyncWithClientHook


(***************************************************************************)
(* NewWithClientHook, and setAsync for the asynchronous constructors.      *)
(* Timeout is an exported field the caller may set before use.             *)
(***************************************************************************)
NewWithClientHook ==
    /\ asynchronous \in BOOLEAN
    /\ Timeout \in Timeouts
    /\ serverName = Str("")
    /\ ignoreFields = EmptyMap
    /\ extraFilters = EmptyMap
    /\ mu = [readers |-> {}, w |-> None, held |-> FALSE]
    /\ wg = 0

InitCalls ==
    /\ pc = [p \in Fires |-> "idle"]
    /\ cur = [p \in Fires |-> 0]
    /\ result = [p \in Fires |-> NoResult]
    /\ recvd = [p \in Fires |-> None]
    /\ timer = [p \in Fires |-> "off"]
    /\ seen = [p \in Fires |-> NoRead]
    /\ chan = [c \in Calls |-> None]
    /\ task = [c \in Calls |-> None]
    /\ flpc = [f \in Flushers |-> "idle"]
    /\ snap = [f \in Flushers |-> [reg |-> {}, open |-> {}]]
    /\ spc = [s \in Setters |-> [at |-> "idle", arg |-> ""]]
    /\ nfire = 0 /\ nflush = 0 /\ nset = 0 /\ streak = 0

NoTraces ==
    /\ err = <<>>
    /\ trace = Unset
    /\ st = NilStack
    /\ conv = Unset

\* Nothing built yet.
NoEntry == [Level |-> ErrorLevel, Data |-> <<>>]
NoBuild ==
    /\ entry = NoEntry
    /\ stConfig = DefaultStConfig
    /\ fresh = FreshTrace
    /\ seed = NilExtra
    /\ packet = NoPacket
    /\ severityMap = severityTable

\* The hook came from the constructor of its mode that takes a client.
Constructed ==
    /\ ctor = IF asynchronous THEN "NewAsyncWithClientHook" ELSE "NewWithClientHook"
    /\ dsn = TRUE
    /\ made = Returned([Call(ctor, dsn).hook EXCEPT !.Timeout = Timeout], NilErr)

Init ==
    /\ NewWithClientHook
    /\ InitCalls
    /\ NoTraces
    /\ NoBuild
    /\ Constructed

(***************************************************************************)
(* sync.RWMutex: a pending or holding writer keeps new readers out; the    *)
(* writer gets the lock once the readers that hold it have left.           *)
(***************************************************************************)
RLockFree(m)   == m.w = None
RLock(m, p)    == [m EXCEPT !.readers = @ \cup {p}]
RUnlock(m, p)  == [m EXCEPT !.readers = @ \ {p}]

(***************************************************************************)
(* Hook.Fire                                                               *)
(***************************************************************************)
FireCall(p) ==
    /\ pc[p] \in {"idle", "returned"}
    /\ nfire < MaxFires
    /\ nfire' = nfire + 1
    /\ cur' = [cur EXCEPT ![p] = nfire + 1]
    /\ pc' = [pc EXCEPT ![p] = "rlock"]
    /\ result' = [result EXCEPT ![p] = NoResult]
    /\ recvd' = [recvd EXCEPT ![p] = None]
    /\ timer' = [timer EXCEPT ![p] = "off"]
    /\ streak' = 0
    /\ UNCHANGED <<hookVars, seen, chan, task, flushVars, spc, nflush, nset, traceVars, buildVars, newVars>>

\* Mutant: RLock that waits for the other readers to leave as well.
FireRLock_Exclusive(p) ==
    /\ pc[p] = "rlock"
    /\ RLockFree(mu) /\ mu.readers = {}
    /\ mu' = RLock(mu, p)
    /\ pc' = [pc EXCEPT ![p] = "build"]
    /\ UNCHANGED <<asynchronous, Timeout, serverName, ignoreFields, extraFilters, wg,
                   cur, result, recvd, timer, seen, chan, task,
                   flushVars, spc, countVars, traceVars, buildVars, newVars>>

\* Mutant: RLock that does not wait for a pending or holding writer.
FireRLock_NoExclusion(p) ==
    /\ pc[p] = "rlock"
    /\ mu' = RLock(mu, p)
    /\ pc' = [pc EXCEPT ![p] = "build"]
    /\ UNCHANGED <<asynchronous, Timeout, serverName, ignoreFields, extraFilters, wg,
                   cur, result, recvd, timer, seen, chan, task,
                   flushVars, spc, countVars, traceVars, buildVars, newVars>>

FireRLock(p) ==
    /\ pc[p] = "rlock"
    /\ RLockFree(mu)
    /\ mu' = RLock(mu, p)
    /\ pc' = [pc EXCEPT ![p] = "build"]
    /\ UNCHANGED <<asynchronous, Timeout, serverName, ignoreFields, extraFilters, wg,
                   cur, result, recvd, timer, seen, chan, task,
                   flushVars, spc, countVars, traceVars, buildVars, newVars>>

\* Lines 187-255: the packet is built; hook.serverName is read.
FireBuild(p) ==
    /\ pc[p] = "build"
    /\ seen' = [seen EXCEPT ![p] = [name |-> serverName, torn |-> HalfStr(serverName)]]
    /\ pc' = [pc EXCEPT ![p] = "extra"]
    /\ UNCHANGED <<hookVars, cur, result, recvd, timer, chan, task,
                   flushVars, spc, countVars, traceVars, buildVars, newVars>>

\* Lines 258-267: formatExtraData reads both maps, then client.Capture
\* hands back errCh, on which the notifier sends the outcome once.
FireCapture(p) ==
    /\ pc[p] = "extra"
    /\ seen' = [seen EXCEPT ![p].torn = @ \/ ignoreFields.writing \/ extraFilters.writing]
    /\ chan' = [chan EXCEPT ![cur[p]] = "empty"]
    /\ pc' = [pc EXCEPT ![p] = "dispatched"]
    /\ UNCHANGED <<hookVars, cur, result, recvd, timer, task,
                   flushVars, spc, countVars, traceVars, buildVars, newVars>>

Return(p, r) ==
    /\ result' = [result EXCEPT ![p] = r]
    /\ mu' = RUnlock(mu, p)
    /\ pc' = [pc EXCEPT ![p] = "returned"]
    /\ seen' = [seen EXCEPT ![p] = NoRead]

\* Mutant: the call registers two tasks.
FireAdd_Twice(p) ==
    /\ pc[p] = "dispatched"
    /\ asynchronous
    /\ wg' = wg + 2
    /\ task' = [task EXCEPT ![cur[p]] = "registered"]
    /\ pc' = [pc EXCEPT ![p] = "added"]
    /\ UNCHANGED <<asynchronous, Timeout, serverName, ignoreFields, extraFilters, mu,
                   cur, result, recvd, timer, seen, chan,
                   flushVars, spc, countVars, traceVars, buildVars, newVars>>

\* Line 272: hook.wg.Add(1)
FireAdd(p) ==
    /\ pc[p] = "dispatched"
    /\ asynchronous
    /\ wg' = wg + 1
    /\ task' = [task EXCEPT ![cur[p]] = "registered"]
    /\ pc' = [pc EXCEPT ![p] = "added"]
    /\ UNCHANGED <<asynchronous, Timeout, serverName, ignoreFields, extraFilters, mu,
                   cur, result, recvd, timer, seen, chan,
                   flushVars, spc, countVars, traceVars, buildVars, newVars>>

\* Line 273: go func() { ... }()
FireGo(p) ==
    /\ pc[p] = "added"
    /\ task' = [task EXCEPT ![cur[p]] = "awaiting"]
    /\ pc' = [pc EXCEPT ![p] = "spawned"]
    /\ UNCHANGED <<hookVars, cur, result, recvd, timer, seen, chan,
                   flushVars, spc, countVars, traceVars, buildVars, newVars>>

\* Line 279: return nil
FireReturnAsync(p) ==
    /\ pc[p] = "spawned"
    /\ Return(p, Ret(NilErr))
    /\ UNCHANGED <<asynchronous, Timeout, serverName, ignoreFields, extraFilters, wg,
                   cur, recvd, timer, chan, task,
                   flushVars, spc, countVars, traceVars, buildVars, newVars>>

\* Mutant: a zero timeout is not told apart and the call waits in the select.
FireNoWait_Select(p) ==
    /\ pc[p] = "dispatched"
    /\ ~asynchronous
    /\ Timeout = 0
    /\ timer' = [timer EXCEPT ![p] = "running"]
    /\ pc' = [pc EXCEPT ![p] = "select"]
    /\ UNCHANGED <<hookVars, cur, result, recvd, seen, chan, task,
                   flushVars, spc, countVars, traceVars, buildVars, newVars>>

\* Lines 280-281: timeout == 0
FireNoWait(p) ==
    /\ pc[p] = "dispatched"
    /\ ~asynchronous
    /\ Timeout = 0
    /\ Return(p, Ret(NilErr))
    /\ UNCHANGED <<asynchronous, Timeout, serverName, ignoreFields, extraFilters, wg,
                   cur, recvd, timer, chan, task,
                   flushVars, spc, countVars, traceVars, buildVars, newVars>>

\* Mutant: the select is entered without a timer having been started.
FireAfter_NoTimer(p) ==
    /\ pc[p] = "dispatched"
    /\ ~asynchronous
    /\ Timeout # 0
    /\ pc' = [pc EXCEPT ![p] = "select"]
    /\ UNCHANGED <<hookVars, cur, result, recvd, timer, seen, chan, task,
                   flushVars, spc, countVars, traceVars, buildVars, newVars>>

\* Line 283: timeoutCh := time.After(timeout)
FireAfter(p) ==
    /\ pc[p] = "dispatched"
    /\ ~asynchronous
    /\ Timeout # 0
    /\ timer' = [timer EXCEPT ![p] = "running"]
    /\ pc' = [pc EXCEPT ![p] = "select"]
    /\ UNCHANGED <<hookVars, cur, result, recvd, seen, chan, task,
                   flushVars, spc, countVars, traceVars, buildVars, newVars>>

\* Lines 285-286: case err := <-errCh: return err
FireRecv(p) ==
    /\ pc[p] = "select"
    /\ chan[cur[p]] \in {NilErr, DeliveryErr}
    /\ recvd' = [recvd EXCEPT ![p] = chan[cur[p]]]
    /\ chan' = [chan EXCEPT ![cur[p]] = "drained"]
    /\ Return(p, Ret(chan[cur[p]]))
    /\ UNCHANGED <<asynchronous, Timeout, serverName, ignoreFields, extraFilters, wg,
                   cur, timer, task, flushVars, spc, countVars, traceVars, buildVars, newVars>>

\* Mutant: the timeout case returns nil.
FireTimeout_Nil(p) ==
    /\ pc[p] = "select"
    /\ timer[p] = "fired"
    /\ Return(p, Ret(NilErr))
    /\ UNCHANGED <<asynchronous, Timeout, serverName, ignoreFields, extraFilters, wg,
                   cur, recvd, timer, chan, task,
                   flushVars, spc, countVars, traceVars, buildVars, newVars>>

\* Lines 287-288: case <-timeoutCh: return fmt.Errorf(...)
FireTimeout(p) ==
    /\ pc[p] = "select"
    /\ timer[p] = "fired"
    /\ Return(p, TimeoutErr(Timeout))
    /\ UNCHANGED <<asynchronous, Timeout, serverName, ignoreFields, extraFilters, wg,
                   cur, recvd, timer, chan, task,
                   flushVars, spc, countVars, traceVars, buildVars, newVars>>

\* The runtime timer of time.After: the duration elapses.
TimerFire(p) ==
    /\ timer[p] = "running"
    /\ timer' = [timer EXCEPT ![p] = "fired"]
    /\ UNCHANGED <<hookVars, pc, cur, result, recvd, seen, chan, task,
                   flushVars, spc, countVars, traceVars, buildVars, newVars>>

\* The notifier sends the outcome of a capture on its errCh (buffered).
Deliver(c) ==
    /\ chan[c] = "empty"
    /\ \E v \in {NilErr, DeliveryErr} : chan' = [chan EXCEPT ![c] = v]
    /\ UNCHANGED <<hookVars, pc, cur, result, recvd, timer, seen, task,
                   flushVars, spc, countVars, traceVars, buildVars, newVars>>

\* Lines 274-276: the background goroutine receives the outcome.
TaskRecv(c) ==
    /\ task[c] = "awaiting"
    /\ chan[c] \in {NilErr, DeliveryErr}
    /\ task' = [task EXCEPT ![c] = "received"]
    /\ chan' = [chan EXCEPT ![c] = "drained"]
    /\ UNCHANGED <<hookVars, pc, cur, result, recvd, timer, seen,
                   flushVars, spc, countVars, traceVars, buildVars, newVars>>

\* Mutant: the task ends without Done.
TaskDone_NoDone(c) ==
    /\ task[c] = "received"
    /\ task' = [task EXCEPT ![c] = "done"]
    /\ UNCHANGED <<asynchronous, Timeout, serverName, ignoreFields, extraFilters, mu, wg,
                   pc, cur, result, recvd, timer, seen, chan,
                   flushVars, spc, countVars, traceVars, buildVars, newVars>>

\* Line 277: hook.wg.Done()
TaskDone(c) ==
    /\ task[c] = "received"
    /\ wg' = wg - 1
    /\ task' = [task EXCEPT ![c] = "done"]
    /\ UNCHANGED <<asynchronous, Timeout, serverName, ignoreFields, extraFilters, mu,
                   pc, cur, result, recvd, timer, seen, chan,
                   flushVars, spc, countVars, traceVars, buildVars, newVars>>

(***************************************************************************)
(* Hook.Flush                                                              *)
(***************************************************************************)
Quiet == \A p \in Fires : ~InFire(p)
Bump(n) == IF Quiet THEN (IF n < MaxFlushes THEN n + 1 ELSE n) ELSE 0

\* Mutant: Flush without the test of hook.asynchronous.
FlushCall_AlwaysLock(f) ==
    /\ flpc[f] \in {"idle", "returned"}
    /\ nflush < MaxFlushes
    /\ nflush' = nflush + 1
    /\ flpc' = [flpc EXCEPT ![f] = "lock"]
    /\ snap' = [snap EXCEPT ![f] = [reg  |-> {c \in Calls : task[c] # None},
                                     open |-> {c \in Calls : task[c] \notin {None, "done"}}]]
    /\ UNCHANGED <<hookVars, fireVars, spc, nfire, nset, streak, traceVars, buildVars, newVars>>

\* Lines 296-299: return at once on a synchronous hook, else call mu.Lock.
FlushCall(f) ==
    /\ flpc[f] \in {"idle", "returned"}
    /\ nflush < MaxFlushes
    /\ nflush' = nflush + 1
    /\ IF ~asynchronous
         THEN /\ flpc' = [flpc EXCEPT ![f] = "returned"]
              /\ streak' = Bump(streak)
              /\ UNCHANGED snap
         ELSE /\ flpc' = [flpc EXCEPT ![f] = "lock"]
              /\ snap' = [snap EXCEPT ![f] = [reg  |-> {c \in Calls : task[c] # None},
                                               open |-> {c \in Calls : task[c] \notin {None, "done"}}]]
              /\ UNCHANGED streak
    /\ UNCHANGED <<hookVars, fireVars, spc, nfire, nset, traceVars, buildVars, newVars>>

\* mu.Lock, first half: the writer announces itself; new readers now block.
FlushLockPending(f) ==
    /\ flpc[f] = "lock"
    /\ mu.w = None
    /\ mu' = [mu EXCEPT !.w = f]
    /\ flpc' = [flpc EXCEPT ![f] = "pending"]
    /\ UNCHANGED <<asynchronous, Timeout, serverName, ignoreFields, extraFilters, wg,
                   fireVars, snap, spc, countVars, traceVars, buildVars, newVars>>

\* Mutant: Lock that does not wait for the readers to leave.
FlushLockHeld_Early(f) ==
    /\ flpc[f] = "pending"
    /\ mu' = [mu EXCEPT !.held = TRUE]
    /\ flpc' = [flpc EXCEPT ![f] = "wait"]
    /\ UNCHANGED <<asynchronous, Timeout, serverName, ignoreFields, extraFilters, wg,
                   fireVars, snap, spc, countVars, traceVars, buildVars, newVars>>

\* mu.Lock, second half: the readers have left, the lock is held.
FlushLockHeld(f) ==
    /\ flpc[f] = "pending"
    /\ mu.readers = {}
    /\ mu' = [mu EXCEPT !.held = TRUE]
    /\ flpc' = [flpc EXCEPT ![f] = "wait"]
    /\ UNCHANGED <<asynchronous, Timeout, serverName, ignoreFields, extraFilters, wg,
                   fireVars, snap, spc, countVars, traceVars, buildVars, newVars>>

\* Mutant: Flush that does not wait on the wait group.
FlushWait_NoWait(f) ==
    /\ flpc[f] = "wait"
    /\ flpc' = [flpc EXCEPT ![f] = "unlock"]
    /\ UNCHANGED <<hookVars, fireVars, snap, spc, countVars, traceVars, buildVars, newVars>>

\* Mutant: a wait that returns with one unit of work still outstanding.
FlushWait_OffByOne(f) ==
    /\ flpc[f] = "wait"
    /\ wg <= 1
    /\ flpc' = [flpc EXCEPT ![f] = "unlock"]
    /\ UNCHANGED <<hookVars, fireVars, snap, spc, countVars, traceVars, buildVars, newVars>>

\* Line 302: hook.wg.Wait() returns when the counter is zero.
FlushWait(f) ==
    /\ flpc[f] = "wait"
    /\ wg = 0
    /\ flpc' = [flpc EXCEPT ![f] = "unlock"]
    /\ UNCHANGED <<hookVars, fireVars, snap, spc, countVars, traceVars, buildVars, newVars>>

\* Line 300: the deferred mu.Unlock, and the return.
FlushUnlock(f) ==
    /\ flpc[f] = "unlock"
    /\ mu' = [mu EXCEPT !.w = None, !.held = FALSE]
    /\ flpc' = [flpc EXCEPT ![f] = "returned"]
    /\ streak' = Bump(streak)
    /\ UNCHANGED <<asynchronous, Timeout, serverName, ignoreFields, extraFilters, wg,
                   fireVars, snap, spc, nfire, nflush, nset, traceVars, buildVars, newVars>>

(***************************************************************************)
(* The setters: none of them takes hook.mu.                                *)
(***************************************************************************)
SetterCall(s, op, a) ==
    /\ spc[s].at = "idle"
    /\ nset < MaxSets
    /\ nset' = nset + 1
    /\ spc' = [spc EXCEPT ![s] = [at |-> op, arg |-> a]]

\* Line 369: hook.serverName = serverName; the data pointer goes first.
SetServerNameBegin(s) ==
    /\ \E v \in Names : /\ SetterCall(s, "name", v)
                        /\ serverName' = [serverName EXCEPT !.ptr = v]
    /\ UNCHANGED <<asynchronous, Timeout, ignoreFields, extraFilters, mu, wg,
                   fireVars, flushVars, nfire, nflush, streak, traceVars, buildVars, newVars>>

SetServerNameEnd(s) ==
    /\ spc[s].at = "name"
    /\ serverName' = [serverName EXCEPT !.len = spc[s].arg]
    /\ spc' = [spc EXCEPT ![s] = [at |-> "idle", arg |-> ""]]
    /\ UNCHANGED <<asynchronous, Timeout, ignoreFields, extraFilters, mu, wg,
                   fireVars, flushVars, countVars, traceVars, buildVars, newVars>>

\* Line 374: hook.ignoreFields[name] = struct{}{}; a map assignment marks
\* the map as being written while it inserts.
AddIgnoreBegin(s) ==
    /\ \E k \in Keys : SetterCall(s, "ignore", k)
    /\ ignoreFields' = [ignoreFields EXCEPT !.writing = TRUE]
    /\ UNCHANGED <<asynchronous, Timeout, serverName, extraFilters, mu, wg,
                   fireVars, flushVars, nfire, nflush, streak, traceVars, buildVars, newVars>>

AddIgnoreEnd(s) ==
    /\ spc[s].at = "ignore"
    /\ ignoreFields' = [keys |-> ignoreFields.keys \cup {spc[s].arg}, writing |-> FALSE]
    /\ spc' = [spc EXCEPT ![s] = [at |-> "idle", arg |-> ""]]
    /\ UNCHANGED <<asynchronous, Timeout, serverName, extraFilters, mu, wg,
                   fireVars, flushVars, countVars, traceVars, buildVars, newVars>>

\* Line 379: hook.extraFilters[name] = fn
AddExtraFilterBegin(s) ==
    /\ \E k \in Keys : SetterCall(s, "filter", k)
    /\ extraFilters' = [extraFilters EXCEPT !.writing = TRUE]
    /\ UNCHANGED <<asynchronous, Timeout, serverName, ignoreFields, mu, wg,
                   fireVars, flushVars, nfire, nflush, streak, traceVars, buildVars, newVars>>

AddExtraFilterEnd(s) ==
    /\ spc[s].at = "filter"
    /\ extraFilters' = [keys |-> extraFilters.keys \cup {spc[s].arg}, writing |-> FALSE]
    /\ spc' = [spc EXCEPT ![s] = [at |-> "idle", arg |-> ""]]
    /\ UNCHANGED <<asynchronous, Timeout, serverName, ignoreFields, mu, wg,
                   fireVars, flushVars, countVars, traceVars, buildVars, newVars>>

(***************************************************************************)
(* Specifications                                                          *)
(***************************************************************************)
FireStep(p) ==
    \/ FireCall(p) \/ FireRLock(p) \/ FireBuild(p) \/ FireCapture(p)
    \/ FireAdd(p) \/ FireGo(p) \/ FireReturnAsync(p)
    \/ FireNoWait(p) \/ FireAfter(p) \/ FireRecv(p) \/ FireTimeout(p)

FlushStep(f) ==
    \/ FlushCall(f) \/ FlushLockPending(f) \/ FlushLockHeld(f)
    \/ FlushWait(f) \/ FlushUnlock(f)

SetterStep(s) ==
    \/ SetServerNameBegin(s) \/ SetServerNameEnd(s)
    \/ AddIgnoreBegin(s) \/ AddIgnoreEnd(s)
    \/ AddExtraFilterBegin(s) \/ AddExtraFilterEnd(s)

Next ==
    \/ \E p \in Fires : FireStep(p) \/ TimerFire(p)
    \/ \E c \in Calls : Deliver(c) \/ TaskRecv(c) \/ TaskDone(c)
    \/ \E f \in Flushers : FlushStep(f)

\* The hook in steady state: its configuration was set before it is used.
Spec == Init /\ [][Next]_vars

\* The hook with setters called while it is in use.
NextConfig ==
    \/ Next
    \/ \E s \in Setters : SetterStep(s)

SpecConfig == Init /\ [][NextConfig]_vars

\* The resolver applied to an error, and the conversion to a stack.
Resolve ==
    /\ trace = Unset
    /\ trace' = findStacktrace(err)
    /\ UNCHANGED <<hookVars, fireVars, flushVars, spc, countVars, err, st, conv,
                   buildVars, newVars>>

Convert ==
    /\ conv = Unset
    /\ conv' = convertStackTrace(st)
    /\ UNCHANGED <<hookVars, fireVars, flushVars, spc, countVars, err, trace, st,
                   buildVars, newVars>>

\* The hook as NewWithClientHook returns it, with nobody calling yet.
FreshHook ==
    /\ NewWithClientHook
    /\ ~asynchronous
    /\ Timeout = DefaultTimeout
    /\ InitCalls

InitResolve ==
    /\ FreshHook
    /\ NoBuild /\ Constructed
    /\ err \in Chains
    /\ trace = Unset
    /\ st = NilStack
    /\ conv = Unset

InitConvert ==
    /\ FreshHook
    /\ NoBuild /\ Constructed
    /\ err = <<>>
    /\ trace = Unset
    /\ st \in Stacks
    /\ conv = Unset

SpecResolve == InitResolve /\ [][Resolve]_vars
SpecConvert == InitConvert /\ [][Convert]_vars

(***************************************************************************)
(* Fire's packet as a function of its inputs: the entry, the hook's        *)
(* configuration, and what raven.NewPacket and raven.NewStacktrace return. *)
(***************************************************************************)
HookWith(names, ignores, filters) ==
    /\ asynchronous = FALSE
    /\ Timeout = DefaultTimeout
    /\ serverName \in {Str(n) : n \in names}
    /\ ignoreFields \in {[keys |-> s, writing |-> FALSE] : s \in SUBSET ignores}
    /\ extraFilters \in {[keys |-> s, writing |-> FALSE] : s \in SUBSET filters}
    /\ mu = [readers |-> {}, w |-> None, held |-> FALSE]
    /\ wg = 0

\* entry.Data for one choice of what each field holds.
DataOf(choice) == [k \in {f \in DOMAIN choice : choice[f] # Missing} |-> choice[k]]

StConfigs ==
    [Enable : BOOLEAN, Level : {ErrorLevel, InfoLevel}, Skip : {5}, Context : {0},
     InAppPrefixes : {{}, {"main"}}, SendExceptionType : BOOLEAN,
     SwitchExceptionTypeAndMessage : BOOLEAN]

BuildFields ==
    [error        : {Missing, Val("string", "oops")}
                    \cup {Val("error", n) : n \in ErrorNames},
     server_name  : {Missing, Val("string", "host"), Val("int", "7")},
     http_request : {Missing, Val("request", "GET /")},
     user         : {Missing, Val("user", "u1")}]

ExtraFields ==
    [k       : {Missing, Val("string", "v"), Val("int", "7"), Val("stringer", "7s"),
                Val("error", "plain"), Val("marshaler", "m"),
                Val("marshaler_error", "plain")},
     n       : {Missing, Val("string", "w")},
     tags    : {Missing, Val("tags", "t"), Val("string", "x")},
     error   : {Missing, Val("error", "plain")},
     runtime : {Missing, Val("string", "mine")}]

\* What raven.NewPacket leaves in Extra: nothing, or the runtime's figures.
SeedExtras ==
    {NilExtra, Extra(<<>>),
     Extra(("runtime" :> Val("string", "go1")) @@ ("cpus" :> Val("int", "4")))}

InitBuild ==
    /\ HookWith(Names, {}, {})
    /\ InitCalls /\ NoTraces /\ Constructed
    /\ entry \in {[Level |-> l, Data |-> DataOf(c)] : l \in AllLevels, c \in BuildFields}
    /\ stConfig \in StConfigs
    /\ fresh \in {NilTrace, FreshTrace}
    /\ seed = NilExtra
    /\ packet = NoPacket
    /\ severityMap = severityTable

InitExtra ==
    /\ HookWith({""}, {"k", "tags", "runtime"}, {"k", "error"})
    /\ InitCalls /\ NoTraces /\ Constructed
    /\ entry \in {[Level |-> ErrorLevel, Data |-> DataOf(c)] : c \in ExtraFields}
    /\ stConfig = DefaultStConfig
    /\ fresh = FreshTrace
    /\ seed \in SeedExtras
    /\ packet = NoPacket
    /\ severityMap = severityTable

\* Lines 187-265, up to the call of client.Capture.
Build ==
    /\ ~packet.built /\ ~packet.panicked
    /\ packet' = BuildPacket(entry, stConfig, serverName.ptr, ignoreFields.keys,
                             extraFilters.keys, fresh, seed, severityMap)
    /\ UNCHANGED <<hookVars, fireVars, flushVars, spc, countVars, traceVars,
                   entry, stConfig, fresh, seed, severityMap, newVars>>

SpecBuild == InitBuild /\ [][Build]_vars
SpecExtra == InitExtra /\ [][Build]_vars

(***************************************************************************)
(* From the constructor on: a program calls one of the six constructors    *)
(* and, if it got a hook, logs through it and flushes it.                  *)
(***************************************************************************)
InitNew ==
    /\ asynchronous = FALSE
    /\ Timeout = 0
    /\ serverName = Str("")
    /\ ignoreFields = EmptyMap
    /\ extraFilters = EmptyMap
    /\ mu = [readers |-> {}, w |-> None, held |-> FALSE]
    /\ wg = 0
    /\ InitCalls /\ NoTraces /\ NoBuild
    /\ ctor \in Ctors
    \* the constructors that take a client parse no DSN
    /\ dsn \in IF ctor \in {"NewWithClientHook", "NewAsyncWithClientHook"}
               THEN {TRUE} ELSE BOOLEAN
    /\ made = Pending

\* The constructor returns; the hook it made, if any, is the hook from now on.
Construct ==
    /\ made = Pending
    /\ made' = Call(ctor, dsn)
    /\ IF made'.hook.nil
       THEN UNCHANGED <<asynchronous, Timeout>>
       ELSE /\ asynchronous' = made'.hook.asynchronous
            /\ Timeout' = made'.hook.Timeout
    /\ UNCHANGED <<serverName, ignoreFields, extraFilters, mu, wg, fireVars,
                   flushVars, spc, countVars, traceVars, buildVars, ctor, dsn>>

Usable  == made # Pending /\ ~made.hook.nil
NextNew == Construct \/ (Usable /\ Next)
SpecNew == InitNew /\ [][NextNew]_vars

\* Every goroutine that can run does run, and every started timer fires; the
\* notifier is not obliged to deliver, and nobody is obliged to call.
FireProgress(p) ==
    \/ FireRLock(p) \/ FireBuild(p) \/ FireCapture(p)
    \/ FireAdd(p) \/ FireGo(p) \/ FireReturnAsync(p)
    \/ FireNoWait(p) \/ FireAfter(p) \/ FireRecv(p) \/ FireTimeout(p)

FlushProgress(f) ==
    \/ FlushLockPending(f) \/ FlushLockHeld(f) \/ FlushWait(f) \/ FlushUnlock(f)

Fairness ==
    /\ \A p \in Fires : WF_vars(FireProgress(p)) /\ WF_vars(TimerFire(p))
    /\ \A c \in Calls : WF_vars(TaskRecv(c)) /\ WF_vars(TaskDone(c))
    /\ \A f \in Flushers : WF_vars(FlushProgress(f))

FairSpec == Spec /\ Fairness

\* The synchronous hook: the steps Next allows when hook.asynchronous is
\* false (SyncStepsOnly), with the callers of Fire and the timers fair.
InitSync == Init /\ ~asynchronous

NextSync ==
    \/ \E p \in Fires :
          \/ FireCall(p) \/ FireRLock(p) \/ FireBuild(p) \/ FireCapture(p)
          \/ FireNoWait(p) \/ FireAfter(p) \/ FireRecv(p) \/ FireTimeout(p)
          \/ TimerFire(p)
    \/ \E c \in Calls : Deliver(c)
    \/ \E f \in Flushers : FlushCall(f)

SyncStepsOnly == [][~asynchronous => NextSync]_vars

FairSyncSpec ==
    /\ InitSync
    /\ [][NextSync]_vars
    /\ \A p \in Fires : WF_vars(FireProgress(p)) /\ WF_vars(TimerFire(p))

\* The asynchronous hook: the steps Next allows when hook.asynchronous is
\* true (AsyncStepsOnly; Timeout is not read then), under the weakest
\* fairness that fair scheduling and delivered outcomes imply.
InitAsync == Init /\ asynchronous /\ Timeout = DefaultTimeout

AsyncStep ==
    \/ \E p \in Fires :
          \/ FireCall(p) \/ FireRLock(p) \/ FireBuild(p) \/ FireCapture(p)
          \/ FireAdd(p) \/ FireGo(p) \/ FireReturnAsync(p)
    \/ \E c \in Calls : Deliver(c) \/ TaskRecv(c) \/ TaskDone(c)
    \/ \E f \in Flushers : FlushStep(f)

AsyncStepsOnly == [][asynchronous => AsyncStep]_vars

\* The behaviours with at most MaxFairFlushes calls of Flush.
NextAsync == AsyncStep /\ (nflush' # nflush => nflush < MaxFairFlushes)

\* Any step but a new call of Fire or Flush.  A program whose goroutines
\* are scheduled fairly and whose outcomes all come takes such a step
\* whenever one stays possible.
AsyncProgress ==
    \/ \E p \in Fires : FireProgress(p)
    \/ \E c \in Calls : Deliver(c) \/ TaskRecv(c) \/ TaskDone(c)
    \/ \E f \in Flushers : FlushProgress(f)

FairAsyncSpec ==
    /\ InitAsync
    /\ [][NextAsync]_vars
    /\ WF_vars(AsyncProgress)

(***************************************************************************)
(* Properties of the delivery coordinator                                  *)
(***************************************************************************)
SyncTimed == ~asynchronous /\ Timeout # 0

\* C1: on an asynchronous hook, when Flush has returned, every background
\* task that was registered when that Flush called mu.Lock has completed.
C1_FlushDrains ==
    \A f \in Flushers :
        (asynchronous /\ flpc[f] = "returned") =>
            \A c \in snap[f].reg : task[c] = "done"

\* Two tasks were registered and still running when Flush began, and Flush
\* has returned.
C1_Witness ==
    \E f \in Flushers :
        /\ asynchronous
        /\ flpc[f] = "returned"
        /\ Cardinality(snap[f].open) >= 2

\* C2: while a Flush holds the exclusive lock, the count of outstanding work
\* is never incremented.
C2_NoAddUnderFlush == [][mu.held => wg' <= wg]_vars

\* Flush holds the lock and waits for outstanding work while a Fire call
\* stands at RLock.
C2_Witness ==
    /\ mu.held
    /\ wg > 0
    /\ \E f \in Flushers : flpc[f] = "wait"
    /\ \E p \in Fires : pc[p] = "rlock"

\* C3: on a synchronous hook with a non-zero Timeout, Fire returns either
\* the outcome it received from errCh (nil or the delivery error), or the
\* timeout error naming Timeout, the timer having fired and no outcome
\* having been received.
C3_SyncResult ==
    \A p \in Fires :
        (SyncTimed /\ pc[p] = "returned") =>
            \/ /\ result[p] = TimeoutErr(Timeout)
               /\ recvd[p] = None
               /\ timer[p] = "fired"
            \/ /\ recvd[p] \in {NilErr, DeliveryErr}
               /\ result[p] = Ret(recvd[p])

\* One call returned the delivery error while another returned the timeout.
C3_Witness ==
    /\ SyncTimed
    /\ \E p, q \in Fires :
        /\ pc[p] = "returned" /\ result[p] = Ret(DeliveryErr)
        /\ pc[q] = "returned" /\ result[q] = TimeoutErr(Timeout)

\* C4: on an asynchronous hook, and on a synchronous one with Timeout zero,
\* Fire never enters the select, never receives from errCh, starts no timer,
\* can always take its next step once the packet is dispatched, and returns
\* nil.
C4_NoWaitModes ==
    \A p \in Fires :
        (asynchronous \/ Timeout = 0) =>
            /\ pc[p] # "select"
            /\ timer[p] = "off"
            /\ recvd[p] = None
            /\ pc[p] \in {"dispatched", "added", "spawned"} => ENABLED FireProgress(p)
            /\ pc[p] = "returned" => result[p] = Ret(NilErr)

\* Fire returned nil for a delivery that failed, and for one that is still
\* unresolved.
C4_Witness ==
    /\ asynchronous \/ Timeout = 0
    /\ \E p, q \in Fires :
        /\ pc[p] = "returned" /\ chan[cur[p]] = DeliveryErr
        /\ pc[q] = "returned" /\ chan[cur[q]] = "empty"

\* C5: on a synchronous hook with a non-zero Timeout every Fire call
\* eventually returns, and a call that returns while its outcome is still
\* unresolved returns the timeout error.
C5_SyncFireReturns ==
    /\ \A p \in Fires : (SyncTimed /\ InFire(p)) ~> (pc[p] = "returned")
    /\ [](\A p \in Fires :
            (SyncTimed /\ pc[p] = "returned" /\ chan[cur[p]] = "empty")
                => result[p] = TimeoutErr(Timeout))

\* A call returned the timeout error, its outcome never having arrived.
C5_Witness ==
    /\ SyncTimed
    /\ \E p \in Fires :
        /\ pc[p] = "returned"
        /\ chan[cur[p]] = "empty"
        /\ result[p] = TimeoutErr(Timeout)

\* C6: on a synchronous hook a step of Flush changes neither the lock, the
\* wait group nor the configuration, and Flush goes straight to its return.
C6_SyncFlushNoOp ==
    [][(~asynchronous /\ flpc' # flpc) =>
          /\ UNCHANGED hookVars
          /\ \A f \in Flushers : flpc'[f] \in {"idle", "returned"}]_vars

\* On a synchronous hook, Flush has returned while a Fire call waits in its
\* select, holding the shared lock.
C6_Witness ==
    /\ ~asynchronous
    /\ \E f \in Flushers : flpc[f] = "returned"
    /\ \E p \in Fires : pc[p] = "select" /\ p \in mu.readers

C8_SettersExcluded ==
    /\ \A s \in Setters : spc[s].at # "idle" => \A p \in Fires : ~Locked(p)
    /\ \A p \in Fires : ~seen[p].torn

(***************************************************************************)
(* Properties of the stack trace resolver                                  *)
(***************************************************************************)
Exposes(l)   == l.st \/ l.pk
\* The innermost link of the chain that exposes a stack trace (0: none).
Innermost(e) ==
    IF \E i \in 1..Len(e) : Exposes(e[i])
      THEN CHOOSE i \in 1..Len(e) : Exposes(e[i]) /\ \A j \in (i + 1)..Len(e) : ~Exposes(e[j])
      ELSE 0

\* The chains of the claim: the outermost error is a Stacktracer with a
\* trace, and a wrapped error exposes an errors.StackTrace only.
OuterDirectInnerForeign(e) ==
    /\ Len(e) >= 2
    /\ e[1].st /\ e[1].stTrace # NilTrace
    /\ \E i \in 2..Len(e) : e[i].pk /\ ~e[i].st /\ ~e[i].pkTrace.nil

\* C9 as stated: for such a chain findStacktrace returns the trace of the
\* outermost error.
C9_OuterDirectWins ==
    (trace # Unset /\ OuterDirectInnerForeign(err)) => trace = err[1].stTrace

\* C9 as amended: the innermost error of the chain that exposes a stack
\* trace in either format decides.  If it is a Stacktracer the result is
\* what its GetStacktrace returns; otherwise it is the conversion of its
\* errors.StackTrace (nil if that is nil).  The trace of the outermost error
\* does not decide the result when a wrapped error exposes a trace.
C9_InnermostWins ==
    trace # Unset =>
        LET i == Innermost(err)
        IN  /\ i = 0 => trace = NilTrace
            /\ (i # 0 /\ err[i].st) => trace = err[i].stTrace
            /\ (i # 0 /\ ~err[i].st) =>
                  trace = IF err[i].pkTrace.nil THEN NilTrace
                          ELSE convertStackTrace(err[i].pkTrace)
            /\ (OuterDirectInnerForeign(err) /\ ~err[i].st) => trace.kind # "direct"

\* The outermost error has a direct trace, the innermost exposes an
\* errors.StackTrace of two frames, and the result is its conversion.
C9_Witness ==
    /\ OuterDirectInnerForeign(err)
    /\ Innermost(err) = Len(err)
    /\ trace = Converted(<<[pc |-> 2, fn |-> "main.g"], [pc |-> 1, fn |-> "main.f"]>>)

\* The frames of s that resolve to a frame record, in the order of s.
RECURSIVE Resolvable(_)
Resolvable(fs) ==
    IF fs = <<>> THEN <<>>
    ELSE IF FuncForPC(Head(fs)) \in {NoFunc, "runtime.goexit"} THEN Resolvable(Tail(fs))
    ELSE <<[pc |-> Head(fs), fn |-> FuncForPC(Head(fs))]>> \o Resolvable(Tail(fs))

\* C10: the conversion of a stack of M raw frames does not fail and yields
\* the frames that resolve, in the reverse of their input order; the frames
\* that do not resolve are dropped.
C10_ReversedResolvable ==
    conv # Unset =>
        /\ conv.kind = "converted"
        /\ Len(conv.frames) <= Len(st.frames)
        /\ conv.frames = Reverse(Resolvable(st.frames))

(***************************************************************************)
(* The packet Fire builds.                                                 *)
(***************************************************************************)
\* The extra data of the entry as Fire formats it (line 258).
dataExtra == formatExtraData(newDataField(entry.Data), ignoreFields.keys,
                             extraFilters.keys)
\* The packet came with extra data and the entry brings a field of a name
\* that data has already.
Conflict(k) == ~seed.nil /\ k \in DOMAIN seed.m /\ k \in DOMAIN dataExtra

\* C11 as stated: when the formatted entry fields are merged into a packet
\* that has extra data already, a key the packet has keeps its value.
C11_ExistingKeysWin ==
    (packet.built /\ ~seed.nil) =>
        \A k \in DOMAIN seed.m : packet.Extra.m[k] = seed.m[k]

\* C11 as amended: when the formatted entry fields are merged into a packet
\* that has extra data already, the result holds the keys of both; a key the
\* entry supplies gets the entry's formatted value, also when the packet had
\* that key already, and the other keys of the packet keep their values.
C11_EntryFieldsWin ==
    (packet.built /\ ~seed.nil) =>
        /\ ~packet.Extra.nil
        /\ DOMAIN packet.Extra.m = DOMAIN seed.m \cup DOMAIN dataExtra
        /\ \A k \in DOMAIN dataExtra : packet.Extra.m[k] = dataExtra[k]
        /\ \A k \in DOMAIN seed.m \ DOMAIN dataExtra : packet.Extra.m[k] = seed.m[k]

\* The packet had "runtime" and the entry brings a field "runtime" of
\* another value; the packet sent holds the entry's.
C11_Witness ==
    /\ packet.built
    /\ Conflict("runtime")
    /\ seed.m["runtime"] = Val("string", "go1")
    /\ packet.Extra.m["runtime"] = Val("string", "mine")
    /\ "cpus" \in DOMAIN packet.Extra.m

\* C12: the packet's severity is the entry's level mapped by a fixed table,
\* debug to DEBUG, info to INFO, warn to WARNING, error to ERROR, fatal and
\* panic both to FATAL; a level outside the table yields the empty (default)
\* severity; building a packet leaves the table as it was.
C12_SeverityTable ==
    /\ severityMap = severityTable
    /\ packet.built =>
          packet.Level = CASE entry.Level = DebugLevel -> "debug"
                           [] entry.Level = InfoLevel  -> "info"
                           [] entry.Level = WarnLevel  -> "warning"
                           [] entry.Level = ErrorLevel -> "error"
                           [] entry.Level = FatalLevel -> "fatal"
                           [] entry.Level = PanicLevel -> "fatal"
                           [] OTHER                    -> ""

\* A packet built from an entry of a level the table does not hold.
C12_Witness ==
    /\ packet.built
    /\ entry.Level = TraceLevel
    /\ entry.Level \notin DOMAIN severityMap
    /\ packet.Level = ""
    /\ packet.Platform = "go"

\* C13: every constructor returns either a usable hook and a nil error, or a
\* nil hook and a non-nil error, never a hook together with an error; the
\* hook of an asynchronous constructor has the asynchronous flag set, that of
\* a synchronous constructor has it clear, and the flag stays so whatever is
\* called on the hook afterwards.
C13_Constructors ==
    made # Pending =>
        /\ \/ ~made.hook.nil /\ made.err = NilErr
           \/ made.hook.nil /\ made.err # NilErr
        /\ ~made.hook.nil =>
              /\ made.hook.asynchronous = (ctor \in AsyncCtors)
              /\ asynchronous = (ctor \in AsyncCtors)

\* NewAsyncHook was given a DSN raven.New rejects: setAsync was handed the
\* nil hook and the caller got nil and the error.
C13_Witness ==
    /\ ctor = "NewAsyncHook"
    /\ ~dsn
    /\ made = Returned(NilHook, DSNErr)
    /\ ~asynchronous
    /\ nfire = 0

\* The entry carries an error under "error"; its Error() text.
HasError  == "error" \in DOMAIN entry.Data
             /\ entry.Data["error"].t \in {"error", "marshaler_error"}
ErrorText == EntryErrors[entry.Data["error"].v].msgs[1]
\* Stack traces are enabled and the entry is at least as severe as the
\* configured level (Panic is the lowest level, Debug the highest).
Warranted == stConfig.Enable /\ entry.Level <= stConfig.Level
\* The stack-trace and exception interfaces of the packet.
TraceIfaces ==
    {i \in 1..Len(packet.Interfaces) :
        packet.Interfaces[i].kind \in {"stacktrace", "exception"}}

\* C14: Fire appends a stack-trace or exception interface only if stack
\* traces are enabled and entry.Level <= config.Level.  When that condition
\* is false and the entry carries an error, the culprit is the error's text
\* and no such interface is appended; when it is false and there is no
\* error, the culprit is left unset.
C14_OnlyWhenWarranted ==
    /\ packet.panicked => Warranted
    /\ packet.built =>
          /\ TraceIfaces # {} => Warranted
          /\ (~Warranted /\ HasError) =>
                packet.Culprit = <<ErrorText>> /\ TraceIfaces = {}
          /\ (~Warranted /\ ~HasError) => packet.Culprit = NoText

\* Stack traces are enabled from ErrorLevel on, the entry is of InfoLevel and
\* carries a wrapped error with a stack trace of its own: the packet has the
\* error's text as its culprit and no stack trace.
C14_Witness ==
    /\ packet.built
    /\ stConfig.Enable /\ stConfig.Level = ErrorLevel /\ entry.Level = InfoLevel
    /\ HasError /\ entry.Data["error"].v = "wrapped"
    /\ packet.Culprit = <<"ctx: boom">>
    /\ TraceIfaces = {}

\* The dynamic type of the entry's error, of its root cause if it has one.
CauseType ==
    LET e == EntryErrors[entry.Data["error"].v]
        c == Cause(e.chain, 1)
    IN  e.types[IF c = 0 THEN 1 ELSE c]

\* C15: when stack traces are warranted and the entry carries an error, Fire
\* appends exactly one of the two interfaces: with
\* SwitchExceptionTypeAndMessage the stack trace, the culprit being the
\* exception type (blank when SendExceptionType is false), ": ", and the
\* culprit derived from the trace; without it the exception descriptor, the
\* culprit being the error's text.
C15_OneInterface ==
    (Warranted /\ HasError /\ (packet.built \/ packet.panicked)) =>
        /\ packet.built
        /\ Cardinality(TraceIfaces) = 1
        /\ LET i == CHOOSE j \in TraceIfaces : TRUE
               x == packet.Interfaces[i]
           IN  IF stConfig.SwitchExceptionTypeAndMessage
               THEN /\ x.kind = "stacktrace"
                    /\ Len(packet.Culprit) = 3
                    /\ packet.Culprit[1] =
                          IF stConfig.SendExceptionType THEN CauseType ELSE ""
                    /\ packet.Culprit[2] = ": "
                    /\ packet.Culprit[3] = Culprit(x.trace, stConfig.InAppPrefixes)
               ELSE /\ x.kind = "exception"
                    /\ packet.Culprit = <<ErrorText>>

\* What the default formatter makes of a value: the text of an error or of
\* a fmt.Stringer as a string, any other value and any json.Marshaler as is.
Formatted(x) ==
    IF x.t = "error" THEN Val("string", "boom")
    ELSE IF x.t = "stringer" THEN Val("string", x.v)
    ELSE x

C17_SharedLock ==
    /\ mu.readers = {p \in Fires : Locked(p)}
    /\ \A p \in Fires :
          /\ (pc[p] = "rlock" /\ mu.w = None) => ENABLED FireRLock(p)
          /\ pc[p] \in {"build", "extra"} => ENABLED FireProgress(p)

\* A synchronous call waits in its select for an outcome that has not come
\* while another call, inside the lock as well, has dispatched its packet.
C17_Witness ==
    /\ ~asynchronous
    /\ pc["f1"] = "select" /\ chan[cur["f1"]] = "empty"
    /\ pc["f2"] = "dispatched" /\ chan[cur["f2"]] = "empty"
    /\ mu.readers = {"f1", "f2"}
    /\ mu.w = None

\* A background task waits for an outcome that has not been delivered.
Unresolved(c) == task[c] = "awaiting" /\ chan[c] = "empty"

\* C18: on an asynchronous hook, while a Flush holds the exclusive lock no
\* Fire call is inside its locked section, and a Fire call that has begun
\* cannot take the lock, so it dispatches nothing before that Flush has
\* unlocked; and for as long as an outstanding outcome stays undelivered the
\* Flush keeps holding the lock and waiting, and the Fire calls at RLock
\* stay there: if the outcome never comes, none of them ever returns.
C18_FlushBlocksFire ==
    /\ [](mu.held =>
            /\ asynchronous
            /\ \A p \in Fires : /\ ~Locked(p)
                                /\ pc[p] = "rlock" => ~ENABLED FireProgress(p))
    /\ [][(mu.held /\ \E c \in Calls : Unresolved(c) /\ chan'[c] = "empty") =>
            /\ mu.held'
            /\ \A f \in Flushers : flpc[f] = "wait" => flpc'[f] = "wait"
            /\ \A p \in Fires : pc[p] = "rlock" => pc'[p] = "rlock"]_vars

\* Flush holds the lock and waits for a task whose outcome has not come; a
\* Fire call made after Flush called Lock stands at RLock.
C18_Witness ==
    \E f \in Flushers, p \in Fires :
        /\ mu.held /\ flpc[f] = "wait"
        /\ \E c \in snap[f].open : Unresolved(c)
        /\ pc[p] = "rlock" /\ cur[p] \notin snap[f].reg

\* The background tasks registered with the wait group and not done yet.
Running == {c \in Calls : task[c] \in {"registered", "awaiting", "received"}}

\* C19: on an asynchronous hook the wait-group count is the number of
\* background tasks registered and not yet done, and never negative: each
\* asynchronous Fire call adds one, once, before it returns, and each task
\* takes one off, once, after it has received its outcome, nil or not; on a
\* synchronous hook the count is zero throughout.
C19_CountMatchesTasks ==
    /\ [](/\ wg = Cardinality(Running)
          /\ wg >= 0
          /\ ~asynchronous => wg = 0 /\ \A c \in Calls : task[c] = None
          /\ \A c \in Calls : task[c] \in {"received", "done"} => chan[c] = "drained"
          /\ \A p \in Fires :
                (asynchronous /\ pc[p] = "returned") => task[cur[p]] \notin {None, "registered"})
    /\ [][/\ wg' > wg =>
                /\ wg' = wg + 1
                /\ \E p \in Fires : /\ pc[p] = "dispatched" /\ pc'[p] = "added"
                                    /\ task[cur[p]] = None
                                    /\ task'[cur[p]] = "registered"
          /\ wg' < wg =>
                /\ wg' = wg - 1
                /\ \E c \in Calls : task[c] = "received" /\ task'[c] = "done"]_vars

\* Both Fire calls have returned; their two tasks are registered, one still
\* waiting for its outcome, one having received its own and not done yet.
C19_Witness ==
    /\ asynchronous
    /\ wg = 2
    /\ task[1] = "awaiting" /\ chan[1] = "empty"
    /\ task[2] = "received"
    /\ \A p \in Fires : pc[p] = "returned"

InFlush(f) == flpc[f] \notin {"idle", "returned"}
\* No call of Fire or of Flush is under way.
NoCallInFlight == (\A p \in Fires : ~InFire(p)) /\ (\A f \in Flushers : ~InFlush(f))

\* C20: on an asynchronous hook, if every outcome is eventually delivered
\* and the goroutines are scheduled fairly, every Flush call and every Fire
\* call eventually returns, Flush and Fire do not deadlock each other:
\* whenever calls are under way, a state follows in which all of them have
\* returned.
C20_AllReturn == ~NoCallInFlight ~> NoCallInFlight

\* A Flush that found a task running has returned, and so has a Fire call
\* made after that Flush had called Lock, its task registered since.
C20_Witness ==
    \E f \in Flushers, p \in Fires :
        /\ asynchronous
        /\ flpc[f] = "returned" /\ snap[f].open # {}
        /\ pc[p] = "returned" /\ cur[p] \notin snap[f].reg
        /\ ~mu.held /\ mu.w = None

====
